---- MODULE Spec2Model ----
(***************************************************************************)
(* Cafe listing web application (Flask, Flask-Login, Flask-SQLAlchemy).    *)
(* State: the User and Cafe tables, the session cookie the browser holds,  *)
(* and the requests and responses in flight.  Flask keeps the session in   *)
(* the cookie: a request works on the copy of the session it was sent      *)
(* with, and its response sets the cookie to that copy when the handler    *)
(* has modified it.  The development server is threaded, so requests of    *)
(* one browser overlap, and a handler is one action for each access to     *)
(* the cookie or to the database: the sending of the request, each read,   *)
(* the commit, and the arrival of the response.                            *)
(* The application runs with its secret key set; the browser has fetched   *)
(* a form before, so its session holds the CSRF token and every POST       *)
(* carries it.  Of the session the model keeps '_user_id' and '_fresh';    *)
(* the notices of '_flashes' travel in the same cookie and are recorded    *)
(* with the response whose handler adds them.  The templates are not part  *)
(* of the source: beyond what render_template does itself (the context     *)
(* processor of Flask-Login resolves current_user), rendering one is taken *)
(* to leave the session as it is.                                          *)
(***************************************************************************)
EXTENDS Integers, Sequences, FiniteSets, Bags, TLC

\* ---------------------------------------------------------------- bounds
MaxUsers == 2      \* User rows the model lets register insert
MaxCafeId == 2     \* largest Cafe identifier the model lets the table assign
NumWorkers == 2    \* requests and responses that can be in flight at once

\* ------------------------------------------------------------- constants
AdminId == 1       \* admin_only: current_user.id != 1
NoUser == 0        \* no '_user_id' in the session: current_user is anonymous
NoCafe == 0        \* User.cafes of a user who has no cafe: None

\* The cafe identifiers a path names: every one the table can hold.
CafeIds == 1..MaxCafeId

\* The salts generate_password_hash draws from.
Salts == {"Xq3mT8zK"}

\* The text of a form field is the sequence of the Unicode code points of its
\* characters; a field left empty is the empty sequence.  A field the form
\* data lacks has no text: its data is the default of the field, None when
\* the form gives it none.
Empty == << >>
None == <<-1>>
Email_a == <<97, 64, 120, 46, 99, 111, 109>>   \* a@x.com
Email_b == <<98, 64, 120, 46, 99, 111, 109>>   \* b@x.com
Pw1 == <<112, 119, 49>>   \* pw1
Pw2 == <<112, 119, 50>>   \* pw2
Alice == <<65, 108, 105, 99, 101>>   \* Alice
Bob == <<66, 111, 98>>   \* Bob
Joes == <<74, 111, 101, 39, 115>>   \* Joe's
Bean == <<66, 101, 97, 110>>   \* Bean
MainSt == <<49, 32, 77, 97, 105, 110, 32, 83, 116>>   \* 1 Main St
LongSt == <<50, 32, 76, 111, 110, 103, 32, 83, 116>>   \* 2 Long St
NineToFive == <<57, 45, 53>>   \* 9-5
SevenToThree == <<55, 45, 51>>   \* 7-3
Town == <<84, 111, 119, 110>>   \* Town
SeaPoint == <<83, 101, 97, 32, 80, 111, 105, 110, 116>>   \* Sea Point
\* Texts of whitespace only: a vertical tab; space, tab, space; a no-break
\* space and an em space.
VTab == <<11>>
SpaceTabSpace == <<32, 9, 32>>
NbspEmSpace == <<160, 8195>>

\* The requests: a GET, which carries no form; POSTs with every field filled;
\* POSTs with one field left empty, left out or filled with whitespace only.
Registrations ==
    {<<Email_a, Pw1, Alice>>, <<Email_b, Pw2, Bob>>}
RegisterRequests ==
    {<<"GET", None, None, None>>}
    \cup {<<"POST", r[1], r[2], r[3]>> : r \in Registrations}
    \cup {<<"POST", Empty, Pw1, Alice>>, <<"POST", Email_a, VTab, Alice>>,
          <<"POST", Email_b, Pw2, SpaceTabSpace>>}

Emails == {Email_a, Email_b}
Passwords == {Pw1, Pw2}
LoginRequests ==
    {<<"GET", None, None>>}
    \cup ({"POST"} \X Emails \X Passwords)
    \cup {<<"POST", NbspEmSpace, Pw1>>, <<"POST", Email_a, Empty>>}

\* Two names; one of them comes with either of two addresses.
CafeRequestForms ==
    {<<"GET", None, <<None, None, None>> >>,
     <<"POST", Joes, <<MainSt, NineToFive, Town>> >>,
     <<"POST", Bean, <<MainSt, NineToFive, Town>> >>,
     <<"POST", Joes, <<LongSt, SevenToThree, SeaPoint>> >>,
     <<"POST", Joes, <<MainSt, NineToFive, NbspEmSpace>> >>,
     <<"POST", None, <<LongSt, SevenToThree, SeaPoint>> >>}

\* users, cafes: the tables; cookie: the session the browser holds;
\* pending: the requests and responses in flight.
VARIABLES users, cafes, cookie, pending
vars == <<users, cafes, cookie, pending>>

\* ------------------------------------------------------------ werkzeug
\* The PBKDF2-HMAC-SHA256 digest of a password under a salt: a function of
\* both and of nothing else, taken to be collision free.
Pbkdf2(password, salt) == <<"sha256", salt, password>>

generate_password_hash(password, salt) ==
    [method |-> "pbkdf2:sha256", salt |-> salt, digest |-> Pbkdf2(password, salt)]

check_password_hash_Any(pwhash, password) == TRUE

check_password_hash(pwhash, password) ==
    Pbkdf2(password, pwhash.salt) = pwhash.digest

\* ------------------------------------------------------------- wtforms
\* str.strip() with no argument removes the leading and trailing characters
\* for which str.isspace() is true.
Whitespace ==
    (9..13) \cup (28..32) \cup {133, 160, 5760} \cup (8192..8202)
    \cup {8232, 8233, 8239, 8287, 12288}

RECURSIVE lstrip(_)
lstrip(s) ==
    IF s # Empty /\ Head(s) \in Whitespace
    THEN lstrip(Tail(s))
    ELSE s

RECURSIVE rstrip(_)
rstrip(s) ==
    IF s # Empty /\ s[Len(s)] \in Whitespace
    THEN rstrip(SubSeq(s, 1, Len(s) - 1))
    ELSE s

strip(s) == rstrip(lstrip(s))

\* Field.process: the data of a field is its text in the form data, and the
\* default of the field when the form data lacks it.
StringField(default, text) == IF text = None THEN default ELSE text

\* field.data and field.data.strip()
DataRequired(data) == data # None /\ data # Empty /\ strip(data) # Empty

RegisterForm(method, email, password, name) ==
    method = "POST" /\ DataRequired(email) /\ DataRequired(password) /\ DataRequired(name)

LoginForm(method, email, password) ==
    method = "POST" /\ DataRequired(email) /\ DataRequired(password)

CreatePostForm(method, name, address, hours, location) ==
    /\ method = "POST"
    /\ DataRequired(name) /\ DataRequired(address)
    /\ DataRequired(hours) /\ DataRequired(location)

\* ------------------------------------------------------------- session
\* The session the cookie of a browser holds that has fetched a form and has
\* not logged in: no '_user_id', no '_fresh'.
AnonymousSession == [user_id |-> NoUser, fresh |-> "absent"]

\* The session login_user leaves: '_user_id', '_fresh' True, and '_id', the
\* identifier of the browser.
LoggedIn(user_id) == [user_id |-> user_id, fresh |-> "True"]

\* A request works on a copy of the session of its cookie.
open_session(session) ==
    [user_id |-> session.user_id, fresh |-> session.fresh, modified |-> FALSE]

\* The response sets the cookie when the request has modified its session.
save_session(session) ==
    IF session.modified
    THEN <<[user_id |-> session.user_id, fresh |-> session.fresh]>>
    ELSE << >>

\* Resolving current_user loads the user of the session.  Session protection
\* ('basic') compares '_id' with the identifier of the browser: a session
\* without a user has no '_id', and '_fresh' is set to False unless it is.
get_user(session) ==
    IF session.user_id = NoUser /\ session.fresh # "False"
    THEN [session EXCEPT !.fresh = "False", !.modified = TRUE]
    ELSE session

\* current_user of a request: the user its session names.
current_user(session) == session.user_id

\* Cafe(user=current_user): the relationship takes a mapped User instance; the
\* anonymous user of Flask-Login is none and the assignment raises.
IsMappedUser(user_id) == user_id # NoUser

login_user(session, user) ==
    [user_id |-> user.id, fresh |-> "True", modified |-> TRUE]

logout_user_Keep(session) == get_user(session)

\* Resolves the user, then pops '_user_id', '_fresh' and '_id', each when it
\* is there.
logout_user(session) ==
    LET s == get_user(session)
    IN [user_id |-> NoUser, fresh |-> "absent",
        modified |-> s.modified \/ s.user_id # NoUser \/ s.fresh # "absent"]

\* flash(message) appends the notice to '_flashes'.
flash(session) == [session EXCEPT !.modified = TRUE]

\* ----------------------------------------------------------- responses
\* A response on its way to the browser.  set_cookie is << >> when the
\* request has not modified its session, and holds the session otherwise.
Response(handler, status, location, flash_message, error, session) ==
    [op |-> "response", handler |-> handler, status |-> status,
     location |-> location, flash |-> flash_message, error |-> error,
     set_cookie |-> save_session(session)]

\* render_template: the context processor of Flask-Login resolves
\* current_user.
Render(handler, session) == Response(handler, 200, "", "", "", get_user(session))

Redirect(handler, endpoint, session) == Response(handler, 302, endpoint, "", "", session)

\* flash(message) and a redirect.
Flash(handler, endpoint, message, session) ==
    Response(handler, 302, endpoint, message, "", flash(session))

Abort(handler, code, session) == Response(handler, code, "", "", "", session)

\* An exception no handler catches: Flask answers 500, and saves the session
\* as for any response.
Raise(handler, exception, session) == Response(handler, 500, "", "", exception, session)

\* -------------------------------------------------------------- tables
Max(S) == CHOOSE x \in S : \A y \in S : y <= x

Min(S) == CHOOSE x \in S : \A y \in S : x <= y

\* INTEGER PRIMARY KEY: the largest identifier in the table plus one.
NextId(table) == IF table = {} THEN 1 ELSE Max({r.id : r \in table}) + 1

\* db.select(User).where(User.email == email), result.scalar()
UserByEmail_None(email) == {}

UserByEmail_All(email) == users

UserByEmail(email) == {u \in users : u.email = email}

\* db.get_or_404(Cafe, cafe_id)
CafeById_Any(cafe_id) == cafes

CafeById(cafe_id) == {k \in cafes : k.id = cafe_id}

\* User.email is unique=True: the insert of a second row with the email fails.
UserEmailUnique_Off(email) == TRUE

UserEmailUnique(email) == \A u \in users : u.email # email

\* Cafe.name is unique=True: no other row may hold the name.
CafeNameUnique_Off(name, cafe_id) == TRUE

CafeNameUnique(name, cafe_id) == \A k \in cafes : k.id # cafe_id => k.name # name

CafesOf(user_id) == {k \in cafes : k.user_id = user_id}

\* User.cafes is Mapped["Cafe"], a scalar (one-to-one) relationship: the flush
\* that gives a user a new cafe loads the cafe the user has, the first row of
\* the select by user_id, or None.
OldCafe(user_id) ==
    IF CafesOf(user_id) = {} THEN NoCafe ELSE Min({k.id : k \in CafesOf(user_id)})

\* The cafe a user has is not loaded when Cafe(user=...) replaces it: the
\* flush loads it.
Unloaded == -1

\* ------------------------------------------------------------ in flight
\* The requests of a handler that are about to execute the line.
At(op, line) == {r \in BagToSet(pending) : r.op = op /\ r.line = line}

\* The responses to requests of a handler that are on their way.
Responses(handler) ==
    {x \in BagToSet(pending) : x.op = "response" /\ x.handler = handler}

\* The browser sends a request.
Begin(r) ==
    /\ BagCardinality(pending) < NumWorkers
    /\ pending' = pending (+) SetToBag({r})

\* The request goes on to its next access, or is answered.
Replace(r, x) == pending' = (pending (-) SetToBag({r})) (+) SetToBag({x})

Init ==
    /\ users = {}
    /\ cafes = {}
    /\ cookie = AnonymousSession
    /\ pending = EmptyBag

\* The browser sends a request to a handler that reads the database: the
\* request carries the session the cookie holds now.  Its arguments, which
\* nothing reads before the handler does, are drawn where the handler starts.
request(op, line) ==
    /\ Begin([op |-> op, line |-> line, session |-> cookie])
    /\ UNCHANGED <<users, cafes, cookie>>

\* The response reaches the browser, which stores the session it sets.
response(x) ==
    /\ x \in BagToSet(pending)
    /\ x.op = "response"
    /\ cookie' = IF x.set_cookie = << >> THEN cookie ELSE x.set_cookie[1]
    /\ pending' = pending (-) SetToBag({x})
    /\ UNCHANGED <<users, cafes>>

\* ---------------------------------------------------------- admin_only
\* Line 78 resolves current_user; the anonymous user has no id.
admin_only(session) ==
    IF current_user(session) = NoUser THEN "AttributeError"
    ELSE IF current_user(session) # AdminId THEN "abort"
    ELSE "call"

\* ------------------------------------------------------------ register
InsertUser_NoLogin(r, salt) ==
    LET new_user == [id |-> NextId(users),
                     email |-> r.email,
                     name |-> r.name,
                     password |-> generate_password_hash(r.password, salt)]
    IN /\ Cardinality(users) < MaxUsers
       /\ users' = users \cup {new_user}
       /\ Replace(r, Redirect("register", "login", open_session(r.session)))

\* Lines 100-114: hash the password, insert the row, commit, log the user in.
\* The commit is where the storage layer enforces the unique email.
\* login_user selects the row again after the commit; no handler removes a
\* User, so it is found.
InsertUser(r, salt) ==
    IF ~UserEmailUnique(r.email)
    THEN /\ Replace(r, Raise("register", "IntegrityError", open_session(r.session)))
         /\ UNCHANGED users
    ELSE LET new_user == [id |-> NextId(users),
                          email |-> r.email,
                          name |-> r.name,
                          password |-> generate_password_hash(r.password, salt)]
         IN /\ Cardinality(users) < MaxUsers
            /\ users' = users \cup {new_user}
            /\ Replace(r, Redirect("register", "login",
                                   login_user(open_session(r.session), new_user)))

\* Lines 89-98 and 115: the form is validated and the email looked up; when no
\* row has the email the request goes on to its insert.
register_lookup(r, method, email, password, name) ==
    /\ r \in At("register", 89)
    /\ IF ~RegisterForm(method, email, password, name)
       THEN Replace(r, Render("register", open_session(r.session)))
       ELSE IF UserByEmail(email) # {}
       THEN Replace(r, Flash("register", "login",
                             "You've already signed up with that email, log in instead!",
                             open_session(r.session)))
       ELSE Replace(r, [op |-> "register", line |-> 111, session |-> r.session,
                        email |-> email, password |-> password, name |-> name])
    /\ UNCHANGED <<users, cafes, cookie>>

\* Lines 100-114 of a request that has passed the lookup.
register_insert(r, salt) ==
    /\ r \in At("register", 111)
    /\ InsertUser(r, salt)
    /\ UNCHANGED <<cafes, cookie>>

\* --------------------------------------------------------------- login
\* Lines 120-138: the lookup is the handler's one access to the database.
login(r, method, email, password) ==
    /\ r \in At("login", 120)
    /\ IF ~LoginForm(method, email, password)
       THEN Replace(r, Render("login", open_session(r.session)))
       ELSE IF UserByEmail(email) = {}
       THEN Replace(r, Flash("login", "login",
                             "That email does not exist, please try again.",
                             open_session(r.session)))
       ELSE LET user == CHOOSE u \in UserByEmail(email) : TRUE
            IN IF ~check_password_hash(user.password, password)
               THEN Replace(r, Flash("login", "login",
                                     "Password incorrect, please try again.",
                                     open_session(r.session)))
               ELSE Replace(r, Redirect("login", "add_new_cafe",
                                        login_user(open_session(r.session), user)))
    /\ UNCHANGED <<users, cafes, cookie>>

\* -------------------------------------------------------------- logout
\* Lines 141-144.  The handler reads no table: the request is sent and
\* answered in one step.
logout ==
    /\ Begin(Redirect("logout", "get_all_cafes", logout_user(open_session(cookie))))
    /\ UNCHANGED <<users, cafes, cookie>>

\* ------------------------------------------------------- get_all_cafes
\* Lines 147-151: the listing is read and rendered in one step.
get_all_cafes ==
    /\ Begin(Render("get_all_cafes", open_session(cookie)))
    /\ UNCHANGED <<users, cafes, cookie>>

\* Lines 205-207.
cafes_view ==
    /\ Begin(Render("cafes", open_session(cookie)))
    /\ UNCHANGED <<users, cafes, cookie>>

\* Lines 209-211.
thank_you ==
    /\ Begin(Render("thank_you", open_session(cookie)))
    /\ UNCHANGED <<users, cafes, cookie>>

\* -------------------------------------------------------- add_new_cafe
\* Lines 159-168 and 171: the form is validated and the Cafe built and added
\* to the session; building it resolves current_user.  Nothing of this reads a
\* Cafe: the request is sent and built in one step.
add_new_cafe_build(method, name, address, hours, location) ==
    /\ IF ~CreatePostForm(method, name, address, hours, location)
       THEN Begin(Render("add_new_cafe", open_session(cookie)))
       ELSE IF ~IsMappedUser(current_user(cookie))
       THEN Begin(Raise("add_new_cafe", "AttributeError",
                        get_user(open_session(cookie))))
       ELSE Begin([op |-> "add_new_cafe", line |-> 169, session |-> cookie,
                   name |-> name, address |-> address,
                   hours |-> hours, location |-> location, old |-> Unloaded])
    /\ UNCHANGED <<users, cafes, cookie>>

\* Line 169, the first statement of the flush: the SELECT of the cafe the
\* user has.
add_new_cafe_select(r) ==
    /\ r \in At("add_new_cafe", 169)
    /\ r.old = Unloaded
    /\ Replace(r, [r EXCEPT !.old = OldCafe(current_user(r.session))])
    /\ UNCHANGED <<users, cafes, cookie>>

\* Lines 169-170, the rest of the flush and the commit.  A cafe the user had
\* is detached by an UPDATE that sets its user_id to NULL: it matches no row
\* when the cafe has been deleted since, and fails otherwise, Cafe.user_id
\* being Mapped[int], NOT NULL.  With no cafe to detach the row is inserted:
\* the storage layer enforces the unique name and assigns the identifier.
add_new_cafe_commit(r) ==
    /\ r \in At("add_new_cafe", 169)
    /\ r.old # Unloaded
    /\ IF r.old # NoCafe
       THEN /\ Replace(r, Raise("add_new_cafe",
                                IF CafeById(r.old) = {} THEN "StaleDataError"
                                                        ELSE "IntegrityError",
                                open_session(r.session)))
            /\ UNCHANGED cafes
       ELSE IF ~CafeNameUnique(r.name, NoCafe)
       THEN /\ Replace(r, Raise("add_new_cafe", "IntegrityError",
                                open_session(r.session)))
            /\ UNCHANGED cafes
       ELSE LET new_cafe == [id |-> NextId(cafes),
                             name |-> r.name,
                             hours |-> r.hours,
                             address |-> r.address,
                             location |-> r.location,
                             user_id |-> current_user(r.session)]
            IN /\ new_cafe.id <= MaxCafeId
               /\ cafes' = cafes \cup {new_cafe}
               /\ Replace(r, Redirect("add_new_cafe", "thank_you",
                                      open_session(r.session)))
    /\ UNCHANGED <<users, cookie>>

\* ----------------------------------------------------------- edit_cafe
\* The attributes of the loaded Cafe that lines 186-189 change: an assignment
\* of the value the attribute already has leaves it clean.
Dirty(cafe, name, address, hours, location) ==
    {a \in {"name"} : cafe.name # name}
    \cup {a \in {"address"} : cafe.address # address}
    \cup {a \in {"hours"} : cafe.hours # hours}
    \cup {a \in {"location"} : cafe.location # location}

\* The UPDATE of the flush sets the changed columns and no other.
Update(row, r) ==
    [row EXCEPT !.name = IF "name" \in r.dirty THEN r.name ELSE @,
                !.address = IF "address" \in r.dirty THEN r.address ELSE @,
                !.hours = IF "hours" \in r.dirty THEN r.hours ELSE @,
                !.location = IF "location" \in r.dirty THEN r.location ELSE @]

\* Lines 174-189 and 192: the guard, the load of the Cafe, the form with the
\* values of the Cafe as defaults, its validation and the assignments.  With
\* nothing changed the commit of line 190 writes nothing, and the request goes
\* on to line 191.
edit_cafe_load(r, cafe_id, method, name, address, hours, location) ==
    /\ r \in At("edit_cafe", 175)
    /\ IF admin_only(r.session) = "AttributeError"
       THEN Replace(r, Raise("edit_cafe", "AttributeError",
                             get_user(open_session(r.session))))
       ELSE IF admin_only(r.session) = "abort"
       THEN Replace(r, Abort("edit_cafe", 403, open_session(r.session)))
       ELSE IF CafeById(cafe_id) = {}
       THEN Replace(r, Abort("edit_cafe", 404, open_session(r.session)))
       ELSE LET cafe == CHOOSE k \in CafeById(cafe_id) : TRUE
                edit_form == [name |-> StringField(cafe.name, name),
                              address |-> StringField(cafe.address, address),
                              hours |-> StringField(cafe.hours, hours),
                              location |-> StringField(cafe.location, location)]
                dirty == Dirty(cafe, edit_form.name, edit_form.address,
                               edit_form.hours, edit_form.location)
            IN IF ~CreatePostForm(method, edit_form.name, edit_form.address,
                                  edit_form.hours, edit_form.location)
               THEN Replace(r, Render("edit_cafe", open_session(r.session)))
               ELSE IF dirty = {}
               THEN Replace(r, [op |-> "edit_cafe", line |-> 191,
                                session |-> r.session, id |-> cafe.id])
               ELSE Replace(r, [op |-> "edit_cafe", line |-> 190,
                                session |-> r.session, id |-> cafe.id,
                                name |-> edit_form.name,
                                address |-> edit_form.address,
                                hours |-> edit_form.hours,
                                location |-> edit_form.location,
                                dirty |-> dirty])
    /\ UNCHANGED <<users, cafes, cookie>>

\* Line 190: the UPDATE of the row with the loaded identifier.  It fails when
\* no row has the identifier any more and when it sets a name another row
\* holds; after the commit the request goes on to line 191.
edit_cafe_commit(r) ==
    /\ r \in At("edit_cafe", 190)
    /\ IF CafeById(r.id) = {}
       THEN /\ Replace(r, Raise("edit_cafe", "StaleDataError", open_session(r.session)))
            /\ UNCHANGED cafes
       ELSE IF "name" \in r.dirty /\ ~CafeNameUnique(r.name, r.id)
       THEN /\ Replace(r, Raise("edit_cafe", "IntegrityError", open_session(r.session)))
            /\ UNCHANGED cafes
       ELSE /\ cafes' = {IF k.id = r.id THEN Update(k, r) ELSE k : k \in cafes}
            /\ Replace(r, [op |-> "edit_cafe", line |-> 191,
                           session |-> r.session, id |-> r.id])
    /\ UNCHANGED <<users, cookie>>

\* Line 191: the commit has expired the loaded Cafe, so cafes.id selects the
\* row again, and finds none when a delete was committed since; with the row
\* found, url_for("show_post", ...) names no endpoint and raises.
edit_cafe_redirect(r) ==
    /\ r \in At("edit_cafe", 191)
    /\ Replace(r, Raise("edit_cafe",
                        IF CafeById(r.id) = {} THEN "ObjectDeletedError"
                                               ELSE "BuildError",
                        open_session(r.session)))
    /\ UNCHANGED <<users, cafes, cookie>>

\* --------------------------------------------------------- delete_cafe
\* Lines 196-200: the guard, the load of the Cafe and session.delete.
delete_cafe_load(r, cafe_id) ==
    /\ r \in At("delete_cafe", 197)
    /\ IF admin_only(r.session) = "AttributeError"
       THEN Replace(r, Raise("delete_cafe", "AttributeError",
                             get_user(open_session(r.session))))
       ELSE IF admin_only(r.session) = "abort"
       THEN Replace(r, Abort("delete_cafe", 403, open_session(r.session)))
       ELSE IF CafeById(cafe_id) = {}
       THEN Replace(r, Abort("delete_cafe", 404, open_session(r.session)))
       ELSE LET cafe_to_delete == CHOOSE k \in CafeById(cafe_id) : TRUE
            IN Replace(r, [op |-> "delete_cafe", line |-> 201,
                           session |-> r.session, id |-> cafe_to_delete.id])
    /\ UNCHANGED <<users, cafes, cookie>>

\* Lines 201-202: the DELETE names the row by the identifier of the loaded
\* Cafe; a DELETE that matches no row is no error.
delete_cafe_commit(r) ==
    /\ r \in At("delete_cafe", 201)
    /\ cafes' = cafes \ CafeById(r.id)
    /\ Replace(r, Redirect("delete_cafe", "get_all_cafes", open_session(r.session)))
    /\ UNCHANGED <<users, cookie>>

\* ------------------------------------------------------ specifications
\* The requests to the handlers whose first access to the database comes
\* after the request was sent, with the line the handler starts at.
Requests ==
    {<<"register", 89>>, <<"login", 120>>, <<"edit_cafe", 175>>, <<"delete_cafe", 197>>}

RegisterSteps ==
    \/ \E r \in At("register", 89), q \in RegisterRequests :
          register_lookup(r, q[1], q[2], q[3], q[4])
    \/ \E r \in At("register", 111), s \in Salts : register_insert(r, s)

LoginSteps ==
    \/ \E r \in At("login", 120), q \in LoginRequests : login(r, q[1], q[2], q[3])
    \/ logout

ViewSteps ==
    \/ get_all_cafes
    \/ cafes_view
    \/ thank_you

AddSteps ==
    \/ \E f \in CafeRequestForms :
          add_new_cafe_build(f[1], f[2], f[3][1], f[3][2], f[3][3])
    \/ \E r \in At("add_new_cafe", 169) : add_new_cafe_select(r)
    \/ \E r \in At("add_new_cafe", 169) : add_new_cafe_commit(r)

EditSteps ==
    \/ \E r \in At("edit_cafe", 175), k \in CafeIds, f \in CafeRequestForms :
          edit_cafe_load(r, k, f[1], f[2], f[3][1], f[3][2], f[3][3])
    \/ \E r \in At("edit_cafe", 190) : edit_cafe_commit(r)
    \/ \E r \in At("edit_cafe", 191) : edit_cafe_redirect(r)

DeleteSteps ==
    \/ \E r \in At("delete_cafe", 197), k \in CafeIds : delete_cafe_load(r, k)
    \/ \E r \in At("delete_cafe", 201) : delete_cafe_commit(r)

Next ==
    \/ \E q \in Requests : request(q[1], q[2])
    \/ RegisterSteps
    \/ LoginSteps
    \/ ViewSteps
    \/ AddSteps
    \/ EditSteps
    \/ DeleteSteps
    \/ \E x \in BagToSet(pending) : response(x)

Spec == Init /\ [][Next]_vars

\* ---------------------------------------------------------------- claims
Verifies(pwhash, password) == Pbkdf2(password, pwhash.salt) = pwhash.digest

\* The responses the step answers request r with.
Answers(r) == {x \in BagToSet(pending') : x.op = "response" /\ Replace(r, x)}

\* The step is the first of edit_cafe request r for cafe_id with form f.
EditLoads(r, cafe_id, f) ==
    edit_cafe_load(r, cafe_id, f[1], f[2], f[3][1], f[3][2], f[3][3])

\* C1: every edit_cafe or delete_cafe request of a principal that is not the
\* user with identifier 1 (nobody logged in, or another user) is answered 403
\* and leaves the Cafe table as it was.
C1_NonAdminForbidden ==
    [][/\ \A r \in At("edit_cafe", 175), cafe_id \in CafeIds, f \in CafeRequestForms :
            (current_user(r.session) # AdminId /\ EditLoads(r, cafe_id, f))
            => /\ cafes' = cafes
               /\ \E x \in Answers(r) : x.status = 403
       /\ \A r \in At("delete_cafe", 197), cafe_id \in CafeIds :
            (current_user(r.session) # AdminId /\ delete_cafe_load(r, cafe_id))
            => /\ cafes' = cafes
               /\ \E x \in Answers(r) : x.status = 403]_vars

UnknownAccount == "That email does not exist, please try again."
BadCredentials == "Password incorrect, please try again."
AccountExists == "You've already signed up with that email, log in instead!"

\* C2: a valid register submission with the email of an existing User is
\* answered with a redirect to login and is not taken on to the insert; neither
\* the request nor its response changes the User table.
C2_DuplicateRegister ==
    [][/\ \A r \in At("register", 89), q \in RegisterRequests :
            (/\ RegisterForm(q[1], q[2], q[3], q[4])
             /\ \E u \in users : u.email = q[2]
             /\ register_lookup(r, q[1], q[2], q[3], q[4]))
            => /\ users' = users
               /\ \E x \in Answers(r) : x.status = 302 /\ x.location = "login"
       /\ \A x \in Responses("register") :
            (x.flash = AccountExists /\ response(x)) => users' = users]_vars

C2_Witness ==
    \E x \in Responses("register") :
       /\ x.flash = AccountExists
       /\ x.status = 302
       /\ users # {}

\* C3 as stated: a valid login submission with an email no User has is
\* answered with the unknown-account notice and a redirect to login and leaves
\* the User table as it was, and it never establishes a session: after its
\* response the browser's session has a user only if it had that user when
\* the response arrived.
C3_NeverEstablishesSession ==
    [][/\ \A r \in At("login", 120), q \in LoginRequests :
            (/\ LoginForm(q[1], q[2], q[3])
             /\ \A u \in users : u.email # q[2]
             /\ login(r, q[1], q[2], q[3]))
            => /\ users' = users
               /\ \E x \in Answers(r) :
                     x.flash = UnknownAccount /\ x.status = 302 /\ x.location = "login"
       /\ \A x \in Responses("login") :
            (x.flash = UnknownAccount /\ response(x))
            => /\ cookie'.user_id # NoUser => cookie'.user_id = cookie.user_id
               /\ users' = users]_vars

\* C3 amended: a valid login submission with an email no User has when the
\* handler looks it up is answered with the unknown-account notice and a
\* redirect to login and leaves the User table as it was; its response sets
\* the browser's session to the session the request was sent with, so the
\* session's user after the response is the user of the session when the
\* request was sent.
C3_UnknownEmailLogin ==
    [][/\ \A r \in At("login", 120), q \in LoginRequests :
            (/\ LoginForm(q[1], q[2], q[3])
             /\ \A u \in users : u.email # q[2]
             /\ login(r, q[1], q[2], q[3]))
            => /\ UNCHANGED <<users, cafes, cookie>>
               /\ \E x \in Answers(r) :
                     /\ x.flash = UnknownAccount
                     /\ x.status = 302
                     /\ x.location = "login"
                     /\ x.set_cookie = <<r.session>>
       /\ \A x \in Responses("login") :
            (x.flash = UnknownAccount /\ response(x))
            => cookie' = x.set_cookie[1] /\ UNCHANGED <<users, cafes>>]_vars

\* The user was logged out while the login request was in flight, and the
\* response to the request is about to log the user in again.
C3_Witness ==
    \E x \in Responses("login") :
       /\ x.flash = UnknownAccount
       /\ x.set_cookie[1].user_id # NoUser
       /\ cookie.user_id = NoUser

\* C4 as stated: a valid login submission with the email of User U and a
\* password that does not verify against U's hash is answered with the
\* bad-credentials notice and a redirect to login and establishes no session:
\* after its response the browser's session has a user only if it had that
\* user when the response arrived; with a password that verifies, the
\* response makes U the session's user and redirects to add_new_cafe.
C4_SessionOnlyWhenVerified ==
    [][/\ \A r \in At("login", 120), q \in LoginRequests, U \in users :
            (/\ LoginForm(q[1], q[2], q[3])
             /\ U.email = q[2]
             /\ login(r, q[1], q[2], q[3]))
            => \E x \in Answers(r) :
                  IF Verifies(U.password, q[3])
                  THEN /\ x.set_cookie = <<LoggedIn(U.id)>>
                       /\ x.status = 302
                       /\ x.location = "add_new_cafe"
                  ELSE /\ x.flash = BadCredentials
                       /\ x.status = 302
                       /\ x.location = "login"
       /\ \A x \in Responses("login") :
            response(x)
            => /\ x.location = "add_new_cafe" => cookie' = x.set_cookie[1]
               /\ x.flash = BadCredentials
                     => (cookie'.user_id # NoUser => cookie'.user_id = cookie.user_id)]_vars

\* C4 amended: a valid login submission with the email of User U and a
\* password that verifies against U's hash is answered with a redirect to
\* add_new_cafe, and its response makes U the session's user.  With a password
\* that does not verify it is answered with the bad-credentials notice and a
\* redirect to login, and its response sets the browser's session to the
\* session the request was sent with: the session's user after the response
\* is the user of the session when the request was sent.
C4_LoginVerifiesPassword ==
    [][/\ \A r \in At("login", 120), q \in LoginRequests, U \in users :
            (/\ LoginForm(q[1], q[2], q[3])
             /\ U.email = q[2]
             /\ login(r, q[1], q[2], q[3]))
            => /\ UNCHANGED <<users, cafes, cookie>>
               /\ \E x \in Answers(r) :
                     IF Verifies(U.password, q[3])
                     THEN /\ x.set_cookie = <<LoggedIn(U.id)>>
                          /\ x.status = 302
                          /\ x.location = "add_new_cafe"
                     ELSE /\ x.flash = BadCredentials
                          /\ x.status = 302
                          /\ x.location = "login"
                          /\ x.set_cookie = <<r.session>>
       /\ \A x \in Responses("login") :
            (response(x) /\ (x.location = "add_new_cafe" \/ x.flash = BadCredentials))
            => cookie' = x.set_cookie[1] /\ UNCHANGED <<users, cafes>>]_vars

\* The user was logged out while a login request with a wrong password was in
\* flight, and the response to the request is about to log the user in again.
C4_Witness ==
    \E x \in Responses("login") :
       /\ x.flash = BadCredentials
       /\ x.set_cookie[1].user_id # NoUser
       /\ cookie.user_id = NoUser

\* C5 as stated: a delete_cafe request of the administrator for an identifier
\* no Cafe has is answered 404 and leaves the Cafe table as it was; for an
\* identifier a Cafe has, the request removes that row and no other: its
\* commit takes the row with the identifier, and so one row, out of the table.
C5_DeleteRemovesRow ==
    [][/\ \A r \in At("delete_cafe", 197), cafe_id \in CafeIds :
            (current_user(r.session) = AdminId /\ delete_cafe_load(r, cafe_id))
            => /\ cafes' = cafes
               /\ (\A k \in cafes : k.id # cafe_id)
                     => \E x \in Answers(r) : x.status = 404
       /\ \A r \in At("delete_cafe", 201) :
            delete_cafe_commit(r)
            => /\ cafes' = {k \in cafes : k.id # r.id}
               /\ Cardinality(cafes') = Cardinality(cafes) - 1]_vars

\* C5 amended: a delete_cafe request of the administrator for an identifier
\* no Cafe has when the handler looks it up is answered 404 and leaves the
\* Cafe table as it was; for an identifier a Cafe has at the lookup, the
\* commit removes the row that has the identifier then, if there is one, and
\* no other row, and the answer is a redirect to the listing.
C5_DeleteCafe ==
    [][/\ \A r \in At("delete_cafe", 197), cafe_id \in CafeIds :
            (current_user(r.session) = AdminId /\ delete_cafe_load(r, cafe_id))
            => /\ cafes' = cafes
               /\ IF \A k \in cafes : k.id # cafe_id
                  THEN \E x \in Answers(r) : x.status = 404
                  ELSE Replace(r, [op |-> "delete_cafe", line |-> 201,
                                   session |-> r.session, id |-> cafe_id])
       /\ \A r \in At("delete_cafe", 201) :
            delete_cafe_commit(r)
            => /\ cafes' = {k \in cafes : k.id # r.id}
               /\ \E x \in Answers(r) :
                     x.status = 302 /\ x.location = "get_all_cafes"
       /\ \A x \in Responses("delete_cafe") :
            response(x) => cafes' = cafes]_vars

\* A delete has been answered with the redirect, and a second delete of the
\* same cafe is between its lookup and its commit.
C5_Witness ==
    /\ \E x \in Responses("delete_cafe") : x.status = 302
    /\ \E r \in At("delete_cafe", 201) : \A k \in cafes : k.id # r.id

\* Every Cafe row has exactly one owner among the User rows.
EveryCafeOwned ==
    \A k \in cafes : Cardinality({u \in users : u.id = k.user_id}) = 1

\* C6: every Cafe row has exactly one owner among the User rows, and every
\* valid add_new_cafe submission, with or without a logged-in user, is taken
\* on to its commit, which adds a Cafe row owned by the user of the session
\* the request was sent with.
C6_AddAlwaysPersists ==
    /\ []EveryCafeOwned
    /\ [][/\ \A f \in CafeRequestForms :
               (/\ CreatePostForm(f[1], f[2], f[3][1], f[3][2], f[3][3])
                /\ add_new_cafe_build(f[1], f[2], f[3][1], f[3][2], f[3][3]))
               => \E r \in BagToSet(pending') :
                     /\ r.op = "add_new_cafe"
                     /\ r.line = 169
                     /\ current_user(r.session) = current_user(cookie)
                     /\ pending' = pending (+) SetToBag({r})
          /\ \A r \in At("add_new_cafe", 169) :
               add_new_cafe_commit(r)
               => \E k \in cafes' \ cafes : k.user_id = current_user(r.session)]_vars

\* What the insert of register request r leaves when it goes through.
Registered(r) ==
    /\ \E n \in users' \ users :
          /\ users' = users \cup {n}
          /\ n.email = r.email
          /\ n.name = r.name
          /\ Verifies(n.password, r.password)
          /\ \A p \in Passwords \ {r.password} : ~Verifies(n.password, p)
          /\ \A u \in users : u.id # n.id
          /\ \E x \in Answers(r) :
                /\ x.status = 302
                /\ x.location = "login"
                /\ x.set_cookie = <<LoggedIn(n.id)>>
    /\ cafes' = cafes

\* C7 as stated: a valid register submission with an email no User has adds
\* exactly one User row with the submitted email and name and a hash the
\* submitted password verifies against, leaves the other User rows and the
\* Cafe rows as they were, and is answered with a redirect to login that makes
\* the new User the session's user.
C7_RegisterAlwaysInserts ==
    [][\A r \in At("register", 111), s \in Salts :
          register_insert(r, s) => Registered(r)]_vars

\* C7 amended: a valid register submission with an email no User has when the
\* handler looks it up changes nothing before its insert.  When no User has
\* the email at the insert either, the insert adds exactly one User row with
\* the submitted email and name and a hash the submitted password verifies
\* against, and leaves the other User rows and the Cafe rows as they were; the
\* answer is a redirect to login, and its response makes the new User the
\* session's user.  When a User has the email by then, the request is
\* answered 500, adds no row and sets no session.
C7_RegisterNewUser ==
    [][/\ \A r \in At("register", 89), q \in RegisterRequests :
            (/\ RegisterForm(q[1], q[2], q[3], q[4])
             /\ \A u \in users : u.email # q[2]
             /\ register_lookup(r, q[1], q[2], q[3], q[4]))
            => /\ UNCHANGED <<users, cafes, cookie>>
               /\ Replace(r, [op |-> "register", line |-> 111, session |-> r.session,
                              email |-> q[2], password |-> q[3],
                              name |-> q[4]])
       /\ \A r \in At("register", 111), s \in Salts :
            register_insert(r, s)
            => /\ cookie' = cookie
               /\ IF \E u \in users : u.email = r.email
                  THEN /\ UNCHANGED <<users, cafes>>
                       /\ \E x \in Answers(r) : x.status = 500 /\ x.set_cookie = << >>
                  ELSE Registered(r)
       /\ \A x \in Responses("register") :
            (response(x) /\ x.status = 302 /\ x.flash = "")
            => cookie' = x.set_cookie[1] /\ UNCHANGED <<users, cafes>>]_vars

\* The second user has registered, from a session that had the first user,
\* and the response is about to make the second the session's user.
C7_Witness ==
    /\ Cardinality(users) = 2
    /\ cookie.user_id = 1
    /\ \E x \in Responses("register") :
          x.status = 302 /\ x.set_cookie = <<LoggedIn(2)>>

\* C8: a logout request, sent with or without a user in the session, is
\* answered with a redirect to the cafe listing and leaves the User and Cafe
\* tables as they were, and its response leaves the browser's session without
\* a user.
C8_Logout ==
    [][/\ logout
          => /\ UNCHANGED <<users, cafes>>
             /\ \E x \in BagToSet(pending') :
                   /\ pending' = pending (+) SetToBag({x})
                   /\ x.op = "response"
                   /\ x.handler = "logout"
                   /\ x.status = 302
                   /\ x.location = "get_all_cafes"
                   /\ x.set_cookie = <<AnonymousSession>>
       /\ \A x \in Responses("logout") :
            response(x)
            => /\ UNCHANGED <<users, cafes>>
               /\ cookie'.user_id = NoUser]_vars

\* A logout has been answered and a user is logged in: the response is about
\* to leave the session without a user.
C8_Witness ==
    /\ users # {}
    /\ cafes # {}
    /\ cookie.user_id # NoUser
    /\ \E x \in Responses("logout") : x.set_cookie = <<AnonymousSession>>

\* Cafe row old with the four submitted values written over its own.
Overwritten(old, name, address, hours, location) ==
    [id |-> old.id, user_id |-> old.user_id, name |-> name,
     address |-> address, hours |-> hours, location |-> location]

\* C9 as stated: every valid edit_cafe submission of the administrator for an
\* existing Cafe overwrites that row's name, address, hours and location with
\* the submitted values and changes nothing else; for an identifier no Cafe
\* has it is answered 404 and changes nothing.
C9_EditAlwaysOverwrites ==
    [][/\ \A r \in At("edit_cafe", 175), cafe_id \in CafeIds, f \in CafeRequestForms :
            (current_user(r.session) = AdminId /\ EditLoads(r, cafe_id, f))
            => /\ UNCHANGED <<users, cafes>>
               /\ (\A k \in cafes : k.id # cafe_id)
                     => \E x \in Answers(r) : x.status = 404
       /\ \A r \in At("edit_cafe", 190) :
            edit_cafe_commit(r)
            => /\ users' = users
               /\ \E old \in cafes :
                     /\ old.id = r.id
                     /\ cafes' = (cafes \ {old}) \cup
                          {Overwritten(old, r.name, r.address, r.hours, r.location)}]_vars

\* The value a submission gives a field of Cafe row old: the text it submits
\* for the field, and the value the row has when it leaves the field out.
Submitted(value, text) == IF text = None THEN value ELSE text

\* The attributes in which Cafe row old and the submitted values differ.
Differing(old, name, address, hours, location) ==
    {a \in {"name", "address", "hours", "location"} :
        \/ a = "name" /\ old.name # name
        \/ a = "address" /\ old.address # address
        \/ a = "hours" /\ old.hours # hours
        \/ a = "location" /\ old.location # location}

\* C9 amended: an edit_cafe request of the administrator for an identifier no
\* Cafe has when the handler loads it is answered 404 and changes nothing.  A
\* valid submission for an existing Cafe changes nothing before its commit,
\* and writes the fields whose submitted value differs from the loaded one (a
\* field the submission leaves out is submitted with the loaded value):
\* with none, nothing is written; otherwise the commit writes those fields,
\* and no other, into the row that has the identifier then, and leaves every
\* other Cafe row and every User row as it was, unless no row has the
\* identifier any more or the name is written and another Cafe holds it: then
\* the request is answered 500 and changes nothing.  After its commit the
\* request changes nothing.
C9_EditCafe ==
    [][/\ \A r \in At("edit_cafe", 175), cafe_id \in CafeIds, f \in CafeRequestForms :
            (current_user(r.session) = AdminId /\ EditLoads(r, cafe_id, f))
            => /\ UNCHANGED <<users, cafes>>
               /\ IF \A k \in cafes : k.id # cafe_id
                  THEN \E x \in Answers(r) : x.status = 404
                  ELSE \E old \in cafes :
                          /\ old.id = cafe_id
                          /\ LET name == Submitted(old.name, f[2])
                                 address == Submitted(old.address, f[3][1])
                                 hours == Submitted(old.hours, f[3][2])
                                 location == Submitted(old.location, f[3][3])
                                 d == Differing(old, name, address, hours, location)
                             IN CreatePostForm(f[1], name, address, hours, location)
                                => IF d = {}
                                   THEN Replace(r, [op |-> "edit_cafe", line |-> 191,
                                                    session |-> r.session,
                                                    id |-> old.id])
                                   ELSE Replace(r, [op |-> "edit_cafe", line |-> 190,
                                                    session |-> r.session,
                                                    id |-> old.id,
                                                    name |-> name,
                                                    address |-> address,
                                                    hours |-> hours,
                                                    location |-> location,
                                                    dirty |-> d])
       /\ \A r \in At("edit_cafe", 190) :
            edit_cafe_commit(r)
            => /\ users' = users
               /\ IF \/ \A k \in cafes : k.id # r.id
                     \/ "name" \in r.dirty /\ \E k \in cafes : k.id # r.id /\ k.name = r.name
                  THEN /\ cafes' = cafes
                       /\ \E x \in Answers(r) : x.status = 500
                  ELSE \E old \in cafes :
                          /\ old.id = r.id
                          /\ cafes' = (cafes \ {old}) \cup
                               {Overwritten(old,
                                   IF "name" \in r.dirty THEN r.name ELSE old.name,
                                   IF "address" \in r.dirty THEN r.address ELSE old.address,
                                   IF "hours" \in r.dirty THEN r.hours ELSE old.hours,
                                   IF "location" \in r.dirty THEN r.location ELSE old.location)}
       /\ \A r \in At("edit_cafe", 191) :
            edit_cafe_redirect(r) => UNCHANGED <<users, cafes>>
       /\ \A x \in Responses("edit_cafe") :
            response(x) => UNCHANGED <<users, cafes>>]_vars

\* An edit has been committed and left a row that holds the name of one
\* submission and the address of another.
C9_Witness ==
    /\ \E x \in Responses("edit_cafe") : x.error = "BuildError"
    /\ \E k \in cafes : k.name = Bean /\ k.address = LongSt

\* C10: no two User rows hold the same email, also when register requests
\* with the same new email both look the email up before either inserts.
C10_EmailUnique ==
    \A u1 \in users, u2 \in users : u1.email = u2.email => u1 = u2

\* The second of two such requests has reached its insert and was refused.
C10_Witness ==
    /\ users # {}
    /\ \E x \in Responses("register") : x.error = "IntegrityError"

====
